---- MODULE Spec2Model ----
(***************************************************************************)
(* Multi-AI lead research orchestrator (yardi_ai_research_system).         *)
(*                                                                         *)
(* Python values are tagged records: a string is [str |-> s], a number     *)
(* [num |-> n], a list [list |-> seq], a boolean [bool |-> b] and None     *)
(* [none |-> TRUE]; a dict is a function from its keys to such values.     *)
(* Source weights are kept in tenths (0.3 is 3) and every quotient the     *)
(* code computes is kept exact as [num |-> n, den |-> d].                  *)
(***************************************************************************)
EXTENDS Integers, Sequences, FiniteSets, TLC

VARIABLES
    config,          \* self.config["models"]: provider name -> entry
    models,          \* keys of self.models, in insertion order
    pc,              \* position of the running operation
    task,            \* task kind / function of the running operation
    enabled_models,  \* enabled_models of the running batch
    outcomes,        \* per selected index: "pending", "in_flight" or the call's result
    called,          \* names whose adapter request was started in this batch
    valid_results,   \* valid_results: sequence of <<model_name, result>>
    result,          \* value returned by the operation
    acall,           \* a single adapter call: provider, transport outcome, stage, result
    pipeline,        \* research of one contact: results taken so far, operations run
    watcher          \* a watch_directory session: directory, processed_files, position

vars == <<config, models, pc, task, enabled_models, outcomes, called,
          valid_results, result, acall, pipeline, watcher>>

----------------------------------------------------------------------------
(* Bounds *)

\* number of provider entries of the configuration file
MaxSources == 3

----------------------------------------------------------------------------
(* Python values *)

S(x) == [str |-> x]
N(n) == [num |-> n]
L(q) == [list |-> q]
B(b) == [bool |-> b]
None == [none |-> TRUE]

IsStr(v)  == "str" \in DOMAIN v
IsNum(v)  == "num" \in DOMAIN v
IsList(v) == "list" \in DOMAIN v
IsBool(v) == "bool" \in DOMAIN v

\* bool(v)
Truthy(v) ==
    IF IsStr(v) THEN v.str # ""
    ELSE IF IsNum(v) THEN v.num # 0
    ELSE IF IsList(v) THEN v.list # <<>>
    ELSE IF IsBool(v) THEN v.bool
    ELSE FALSE

\* isinstance(v, (int, float)); bool is a subclass of int
IsNumber(v) == IsNum(v) \/ IsBool(v)

\* the number a numeric value multiplies as
NumberOf(v) == IF IsNum(v) THEN v.num ELSE IF v.bool THEN 1 ELSE 0

\* d.get(k, default)
Get(d, k, default) == IF k \in DOMAIN d THEN d[k] ELSE default

EmptyDict == [k \in {} |-> None]

Rat(n, d) == [num |-> n, den |-> d]

\* equality of two exact quotients with positive denominators
RatEq(a, b) == a.num * b.den = b.num * a.den

RatLeq(a, b) == a.num * b.den <= b.num * a.den

Min(set) == CHOOSE x \in set : \A y \in set : x <= y

RECURSIVE SumSeq(_)
SumSeq(q) == IF q = <<>> THEN 0 ELSE Head(q) + SumSeq(Tail(q))

Range(q) == {q[i] : i \in 1..Len(q)}

\* q[:], the whole list
WholeList(q, n) == q

\* q[:n]
Prefix(q, n) == SubSeq(q, 1, IF Len(q) < n THEN Len(q) ELSE n)

\* list(s): the elements of a set, each once, in the iteration order of the set;
\* the order follows the hashes of the strings, which change from process to process
RECURSIVE ListOfSet(_)
ListOfSet(s) ==
    IF s = {} THEN {<<>>}
    ELSE UNION {{<<x>> \o q : q \in ListOfSet(s \ {x})} : x \in s}

----------------------------------------------------------------------------
(* Configuration and model registry *)

ProviderNames == <<"openai", "claude", "gemini", "deepseek">>

ConfigNames == SubSeq(ProviderNames, 1, MaxSources)

\* a source name of the configuration file that setup_models has no class for
UnknownName == "mistral"

\* self.config["models"].items(): the entries in file order
ConfigOrder(cfg) == SelectSeq(ConfigNames \o <<UnknownName>>, LAMBDA n : n \in DOMAIN cfg)

AllTasks == {"contact_research", "email_verification", "company_analysis"}

RealKey == "sk-live"

PlaceholderKey(name) == "your-" \o name \o "-api-key"

\* the api_key that create_sample_config writes for a source
SamplePlaceholderKey(name) ==
    CASE name = "openai" -> "sk-your-openai-api-key-here"
      [] name = "claude" -> "sk-ant-REDACTED"
      [] OTHER -> "your-" \o name \o "-api-key-here"

\* setup_models: one pass over the configuration in file order
RECURSIVE SetupModelsFrom(_, _)
SetupModelsFrom(cfg, names) ==
    IF names = <<>> THEN <<>>
    ELSE LET n == Head(names)
             rest == SetupModelsFrom(cfg, Tail(names))
         IN IF ~cfg[n].enabled THEN rest
            ELSE IF cfg[n].api_key = PlaceholderKey(n) THEN rest
            ELSE IF n \in Range(ProviderNames) THEN <<n>> \o rest
            ELSE rest

\* setup_models without the test of the placeholder credential
SetupModelsKeepingPlaceholders(cfg) ==
    SelectSeq(ConfigOrder(cfg), LAMBDA n : cfg[n].enabled /\ n \in Range(ProviderNames))

setup_models(cfg) == SetupModelsFrom(cfg, ConfigOrder(cfg))

Weight(cfg, name) == cfg[name].weight

----------------------------------------------------------------------------
(* build_contact_consensus *)

ContactFields ==
    <<"job_title", "department", "email", "linkedin", "phone",
      "seniority_level", "decision_maker_level">>

\* field_mapping: the raw keys accepted for a canonical field, in priority order
field_mapping(field) ==
    CASE field = "job_title" -> <<"job_title", "probable_title", "title">>
      [] field = "department" -> <<"department">>
      [] field = "email" -> <<"email", "email_estimate", "email_address">>
      [] field = "linkedin" -> <<"linkedin", "linkedin_url", "linkedin_profile_url">>
      [] field = "phone" -> <<"phone", "phone_number">>
      [] field = "seniority_level" -> <<"seniority_level", "seniority">>
      [] field = "decision_maker_level" -> <<"decision_maker_level", "decision_authority">>

\* index of the first key that is present, truthy or not, 0 if none
FirstPresent(res, keys) ==
    LET hits == {i \in 1..Len(keys) : keys[i] \in DOMAIN res}
    IN IF hits = {} THEN 0 ELSE Min(hits)

\* the inner loop with its break: index of the first key present and truthy, 0 if none
FirstMatch(res, keys) ==
    LET hits == {i \in 1..Len(keys) : keys[i] \in DOMAIN res /\ Truthy(res[keys[i]])}
    IN IF hits = {} THEN 0 ELSE Min(hits)

\* field_responses[field]: <<value, weight>> per result that supplies the field
RECURSIVE FieldResponses(_, _, _)
FieldResponses(cfg, results, field) ==
    IF results = <<>> THEN <<>>
    ELSE LET name == Head(results)[1]
             res  == Head(results)[2]
             keys == field_mapping(field)
             i    == FirstMatch(res, keys)
         IN (IF i = 0 THEN <<>> ELSE << <<res[keys[i]], Weight(cfg, name)>> >>)
            \o FieldResponses(cfg, Tail(results), field)

\* responses[0][0]: the first response, whatever its weight
PickResponseFirst(responses) == responses[1][1]

\* the last response of largest weight
PickResponseLast(responses) ==
    LET best == {i \in 1..Len(responses) :
                    \A j \in 1..Len(responses) : responses[j][2] <= responses[i][2]}
    IN responses[CHOOSE i \in best : \A j \in best : j <= i][1]

\* max(responses, key=lambda x: x[1])[0]: the first response of largest weight
PickResponse(responses) ==
    LET best == {i \in 1..Len(responses) :
                    \A j \in 1..Len(responses) : responses[j][2] <= responses[i][2]}
    IN responses[Min(best)][1]

\* a field gets a value only from a response that carries more than half of
\* the configured weight
ContactFieldValueQuorum(cfg, results, field) ==
    LET responses == FieldResponses(cfg, results, field)
        heavy == SelectSeq(responses,
                     LAMBDA r : 2 * r[2] > SumSeq([i \in 1..Len(ConfigNames) |->
                                                      Weight(cfg, ConfigNames[i])]))
    IN IF heavy = <<>> THEN None ELSE PickResponse(heavy)

\* consensus[field]: the picked response of a field that has responses, else None
ContactFieldValue(cfg, results, field) ==
    LET responses == FieldResponses(cfg, results, field)
    IN IF responses = <<>> THEN None ELSE PickResponse(responses)

ContactConfOf(res) ==
    Get(res, "confidence_score",
        Get(res, "confidence", Get(res, "confidence_level", N(50))))

\* confidence_scores: conf_score * weight of the results whose confidence is a number
ContactConfidenceScores(cfg, results) ==
    LET numeric == SelectSeq(results, LAMBDA r : IsNumber(ContactConfOf(r[2])))
    IN [i \in 1..Len(numeric) |->
           NumberOf(ContactConfOf(numeric[i][2])) * Weight(cfg, numeric[i][1])]

\* the weight of the first result alone
FirstResultWeight(cfg, results) == Weight(cfg, results[1][1])

\* sum(self.config["models"][name]["weight"] for name, _ in results)
ResultsWeight(cfg, results) ==
    SumSeq([i \in 1..Len(results) |-> Weight(cfg, results[i][1])])

ContactConfidenceScore(cfg, results) ==
    LET scores == ContactConfidenceScores(cfg, results)
    IN IF scores # <<>>
       THEN Rat(SumSeq(scores), ResultsWeight(cfg, results))
       ELSE Rat(0, 1)

\* len(results) / len(self.models)
ConsensusStrength(mods, results) == Rat(Len(results), Len(mods))

build_contact_consensus(cfg, mods, results) ==
    [f \in Range(ContactFields) |-> ContactFieldValue(cfg, results, f)]
    @@ [confidence_score |-> ContactConfidenceScore(cfg, results),
        consensus_strength |-> ConsensusStrength(mods, results)]

----------------------------------------------------------------------------
(* build_email_consensus *)

\* the raw keys read for a field of an email verification, in the order of the get chain
EmailAliases(field) ==
    CASE field = "is_valid_format" -> <<"is_valid_format", "valid_format", "format_valid">>
      [] field = "business_likelihood" -> <<"business_likelihood", "business_probability">>
      [] field = "alternative_emails" ->
            <<"alternative_patterns", "alternative_formats", "alternative_emails">>

EmailIsValid(res) ==
    Get(res, "is_valid_format", Get(res, "valid_format", Get(res, "format_valid", B(FALSE))))

EmailLikelihood(res) ==
    Get(res, "business_likelihood", Get(res, "business_probability", N(50)))

EmailAlternatives(res) ==
    Get(res, "alternative_patterns",
        Get(res, "alternative_formats", Get(res, "alternative_emails", L(<<>>))))

\* valid_votes: summed weight of the results whose validity value is truthy
ValidVotes(cfg, results) ==
    SumSeq([i \in 1..Len(results) |->
               IF Truthy(EmailIsValid(results[i][2])) THEN Weight(cfg, results[i][1]) ELSE 0])

LikelihoodScores(cfg, results) ==
    [i \in 1..Len(results) |->
        IF IsNumber(EmailLikelihood(results[i][2]))
        THEN NumberOf(EmailLikelihood(results[i][2])) * Weight(cfg, results[i][1])
        ELSE 0]

\* a set takes only the last list it is given
SetReplace(acc, items) == Range(items)

\* acc.update(items)
SetUpdate(acc, items) == acc \cup Range(items)

\* alternative_emails: set.update over the truthy lists, result by result
RECURSIVE AlternativeEmails(_, _)
AlternativeEmails(results, acc) ==
    IF results = <<>> THEN acc
    ELSE LET alternatives == EmailAlternatives(Head(results)[2])
         IN AlternativeEmails(Tail(results),
                IF Truthy(alternatives) THEN SetUpdate(acc, alternatives.list) ELSE acc)

\* a share of at least one half
MajorityOrHalf(votes, total) == 2 * votes >= total

\* (valid_votes / total_weight) > 0.5
Majority(votes, total) == 2 * votes > total

\* a total that is overwritten by each result: total_weight = weight
LastWeight(cfg, results) == Weight(cfg, results[Len(results)][1])

\* total_weight after the loop: total_weight += weight for every result
TotalWeight(cfg, results) ==
    SumSeq([i \in 1..Len(results) |-> Weight(cfg, results[i][1])])

\* it.alternative_emails is list(alternative_emails)
build_email_consensus(cfg, results, it) ==
    LET total_weight == TotalWeight(cfg, results)
        valid_votes  == ValidVotes(cfg, results)
    IN [is_valid_format |->
            IF total_weight > 0 THEN Majority(valid_votes, total_weight) ELSE FALSE,
        business_likelihood |->
            IF total_weight > 0
            THEN Rat(SumSeq(LikelihoodScores(cfg, results)), total_weight)
            ELSE Rat(0, 1),
        alternative_emails |-> it.alternative_emails,
        consensus_confidence |-> Rat(total_weight, ResultsWeight(cfg, results))]

----------------------------------------------------------------------------
(* build_company_consensus *)

\* the raw keys read for a field of a company analysis, in the order of the get chain
CompanyAliases(field) ==
    CASE field = "industry_type" -> <<"industry_type", "industry", "industry_classification">>
      [] field = "company_size" -> <<"company_size", "size_estimate">>
      [] field = "pain_points" -> <<"pain_points", "business_challenges", "key_challenges">>
      [] field = "yardi_opportunities" -> <<"yardi_opportunities", "consulting_opportunities">>
      [] field = "target_decision_makers" ->
            <<"target_titles", "target_decision_makers", "decision_maker_roles",
              "key_decision_makers">>
      [] field = "website_url" -> <<"website_url", "website", "website_estimate">>
      [] field = "linkedin_company_url" ->
            <<"linkedin_company_url", "linkedin_company", "linkedin_page">>

CompanyIndustry(res) ==
    Get(res, "industry_type", Get(res, "industry", Get(res, "industry_classification", None)))

CompanySize(res) == Get(res, "company_size", Get(res, "size_estimate", None))

CompanyPoints(res) ==
    Get(res, "pain_points",
        Get(res, "business_challenges", Get(res, "key_challenges", L(<<>>))))

CompanyOpps(res) ==
    Get(res, "yardi_opportunities", Get(res, "consulting_opportunities", L(<<>>)))

CompanyTitles(res) ==
    Get(res, "target_titles",
        Get(res, "target_decision_makers",
            Get(res, "decision_maker_roles", Get(res, "key_decision_makers", L(<<>>)))))

CompanyWebsite(res) ==
    Get(res, "website_url", Get(res, "website", Get(res, "website_estimate", None)))

CompanyLinkedin(res) ==
    Get(res, "linkedin_company_url",
        Get(res, "linkedin_company", Get(res, "linkedin_page", None)))

CompanyConfOf(res) == Get(res, "confidence_score", Get(res, "confidence", N(50)))

\* a votes list that keeps one item per vote
AddVoteUnmerged(votes, value, weight) == Append(votes, <<value, weight>>)

\* a votes dict as the sequence of its items in insertion order: <<value, summed weight>>
RECURSIVE AddVote(_, _, _)
AddVote(votes, value, weight) ==
    IF votes = <<>> THEN << <<value, weight>> >>
    ELSE IF Head(votes)[1] = value
         THEN << <<value, Head(votes)[2] + weight>> >> \o Tail(votes)
         ELSE <<Head(votes)>> \o AddVote(Tail(votes), value, weight)

RECURSIVE IndustryVotes(_, _, _)
IndustryVotes(cfg, results, votes) ==
    IF results = <<>> THEN votes
    ELSE LET v == CompanyIndustry(Head(results)[2])
         IN IndustryVotes(cfg, Tail(results),
                IF Truthy(v) THEN AddVote(votes, v, Weight(cfg, Head(results)[1])) ELSE votes)

RECURSIVE SizeVotes(_, _, _)
SizeVotes(cfg, results, votes) ==
    IF results = <<>> THEN votes
    ELSE LET v == CompanySize(Head(results)[2])
         IN SizeVotes(cfg, Tail(results),
                IF Truthy(v) THEN AddVote(votes, v, Weight(cfg, Head(results)[1])) ELSE votes)

\* pain_points, opportunities, decision_makers: set.update over the truthy lists
RECURSIVE PainPoints(_, _)
PainPoints(results, acc) ==
    IF results = <<>> THEN acc
    ELSE LET points == CompanyPoints(Head(results)[2])
         IN PainPoints(Tail(results),
                IF Truthy(points) THEN SetUpdate(acc, points.list) ELSE acc)

RECURSIVE Opportunities(_, _)
Opportunities(results, acc) ==
    IF results = <<>> THEN acc
    ELSE LET opps == CompanyOpps(Head(results)[2])
         IN Opportunities(Tail(results),
                IF Truthy(opps) THEN SetUpdate(acc, opps.list) ELSE acc)

RECURSIVE DecisionMakers(_, _)
DecisionMakers(results, acc) ==
    IF results = <<>> THEN acc
    ELSE LET titles == CompanyTitles(Head(results)[2])
         IN DecisionMakers(Tail(results),
                IF Truthy(titles) THEN SetUpdate(acc, titles.list) ELSE acc)

\* websites / linkedin_pages: the truthy values in result order
Websites(results) ==
    LET hits == SelectSeq(results, LAMBDA r : Truthy(CompanyWebsite(r[2])))
    IN [i \in 1..Len(hits) |-> CompanyWebsite(hits[i][2])]

LinkedinPages(results) ==
    LET hits == SelectSeq(results, LAMBDA r : Truthy(CompanyLinkedin(r[2])))
    IN [i \in 1..Len(hits) |-> CompanyLinkedin(hits[i][2])]

PainPointsCap == 5
OpportunitiesCap == 3
DecisionMakersCap == 5

CompanyConfidenceScores(cfg, results) ==
    LET numeric == SelectSeq(results, LAMBDA r : IsNumber(CompanyConfOf(r[2])))
    IN [i \in 1..Len(numeric) |->
           NumberOf(CompanyConfOf(numeric[i][2])) * Weight(cfg, numeric[i][1])]

\* sum(confidence_scores) / len(results); the weights are in tenths
CompanyConfidenceScore(cfg, results) ==
    LET scores == CompanyConfidenceScores(cfg, results)
    IN IF scores # <<>> THEN Rat(SumSeq(scores), 10 * Len(results)) ELSE Rat(0, 1)

\* it.pain_points, it.opportunities, it.decision_makers are list(...) of the three sets
build_company_consensus(cfg, results, it) ==
    LET industry_votes == IndustryVotes(cfg, results, <<>>)
        size_votes     == SizeVotes(cfg, results, <<>>)
        websites       == Websites(results)
        linkedin_pages == LinkedinPages(results)
    IN [industry_type |->
            IF industry_votes # <<>> THEN PickResponse(industry_votes) ELSE S("Other"),
        company_size |->
            IF size_votes # <<>> THEN PickResponse(size_votes) ELSE S("Unknown"),
        pain_points |-> Prefix(it.pain_points, PainPointsCap),
        yardi_opportunities |-> Prefix(it.opportunities, OpportunitiesCap),
        target_decision_makers |-> Prefix(it.decision_makers, DecisionMakersCap),
        website_url |-> IF websites # <<>> THEN websites[1] ELSE None,
        linkedin_company_url |-> IF linkedin_pages # <<>> THEN linkedin_pages[1] ELSE None,
        confidence_score |-> CompanyConfidenceScore(cfg, results)]

\* the lists that list(set) can give for the sets a consensus function has built
Iterations(t, results) ==
    [pain_points : ListOfSet(IF t = "company_analysis" THEN PainPoints(results, {}) ELSE {}),
     opportunities :
        ListOfSet(IF t = "company_analysis" THEN Opportunities(results, {}) ELSE {}),
     decision_makers :
        ListOfSet(IF t = "company_analysis" THEN DecisionMakers(results, {}) ELSE {}),
     alternative_emails :
        ListOfSet(IF t = "email_verification" THEN AlternativeEmails(results, {}) ELSE {})]

----------------------------------------------------------------------------
(* Source adapters: _make_request and the parsing of its response.          *)
(* A response text is a sequence of tokens: "{" and "}" are braces, "k" is  *)
(* a well-formed member of an object and "x" is any other text.  A text     *)
(* carries in data the dict its object decodes to.                          *)

\* the top-level key under which each provider's response holds its text
ResponsePath(p) ==
    CASE p = "openai" -> "choices"
      [] p = "claude" -> "content"
      [] p = "gemini" -> "candidates"
      [] p = "deepseek" -> "choices"

ModelLabel(p) ==
    CASE p = "openai" -> "OpenAI"
      [] p = "claude" -> "Claude"
      [] p = "gemini" -> "Gemini"
      [] p = "deepseek" -> "DeepSeek"

ErrorDict(msg) == [k |-> "dict", d |-> ("error" :> S(msg))]

\* str(e) of the exception that requests.post or raise_for_status raised
ErrorMessage(transport) ==
    IF transport.t = "unauthorized" THEN "401 Client Error: Unauthorized"
    ELSE "request failed"

\* _make_request: the decoded body of a 2xx response, or {"error": str(e)}
_make_request(transport) ==
    IF transport.t = "json" THEN transport.body
    ELSE [j |-> "object", has_error |-> TRUE, path |-> "none", content |-> None,
          error |-> ErrorMessage(transport)]

\* content.find(ch), 0-based, -1 when absent
Find(text, ch) ==
    LET hits == {i \in 1..Len(text) : text[i] = ch}
    IN IF hits = {} THEN -1 ELSE Min(hits) - 1

\* content.rfind(ch), 0-based, -1 when absent
RFind(text, ch) ==
    LET hits == {i \in 1..Len(text) : text[i] = ch}
    IN IF hits = {} THEN -1 ELSE (CHOOSE i \in hits : \A j \in hits : j <= i) - 1

\* text[a:b] with Python's clamping and negative indices
PySlice(text, a, b) ==
    LET n  == Len(text)
        lo == IF a < 0 THEN (IF n + a < 0 THEN 0 ELSE n + a) ELSE (IF a > n THEN n ELSE a)
        hi == IF b < 0 THEN (IF n + b < 0 THEN 0 ELSE n + b) ELSE (IF b > n THEN n ELSE b)
    IN SubSeq(text, lo + 1, hi)

\* whether json.loads accepts the token sequence: one object and nothing else
JsonLoadsOk(toks) ==
    /\ Len(toks) >= 2
    /\ toks[1] = "{"
    /\ toks[Len(toks)] = "}"
    /\ \A i \in 2..(Len(toks) - 1) : toks[i] = "k"

\* the slice handed to json.loads: content[content.find("{") : content.rfind("}") + 1]
JsonStr(text) == PySlice(text, Find(text, "{"), RFind(text, "}") + 1)

\* "error" in response; None marks the TypeError of a response that is no container
ErrorIn(response) ==
    IF response.j \in {"null", "number"} THEN None
    ELSE B(response.has_error)

\* the try block of an adapter method
ParseResponse(p, response) ==
    IF response.j # "object" THEN ErrorDict("Parse error")
    ELSE IF response.path # ResponsePath(p) THEN ErrorDict("Parse error")
    ELSE IF response.content = None THEN ErrorDict("Parse error")
    ELSE IF ~JsonLoadsOk(JsonStr(response.content.text)) THEN ErrorDict("Parse error")
    ELSE [k |-> "dict",
          d |-> ("model" :> S(ModelLabel(p))) @@ response.content.data]

\* what an adapter method does with the response of _make_request
AdapterReturn(p, response) ==
    IF ErrorIn(response) = None THEN [k |-> "raise", exc |-> "TypeError"]
    ELSE IF ErrorIn(response).bool
         THEN (IF response.j = "object"
               THEN ErrorDict(IF "error" \in DOMAIN response THEN response.error
                              ELSE "request failed")
               ELSE [k |-> "value"])
         ELSE ParseResponse(p, response)

\* research_contact / verify_email / analyze_company of provider p
AdapterResult(p, transport) == AdapterReturn(p, _make_request(transport))

TextOf(toks, data) == [text |-> toks, data |-> data]

Body(p, content) ==
    [j |-> "object", has_error |-> FALSE, path |-> ResponsePath(p), content |-> content]

Answer(p, data) == [t |-> "json", body |-> Body(p, TextOf(<<"{", "k", "}">>, data))]

----------------------------------------------------------------------------
(* Inputs *)

\* configured weights in tenths, by position in the configuration file
Weights == <<3, 3, 4, 2>>

TaskChoices == {AllTasks, {"email_verification"}}

Entry(i, enabled, api_key, tasks) ==
    [enabled |-> enabled, api_key |-> api_key, weight |-> Weights[i], tasks |-> tasks]

IndexOf(name) == CHOOSE i \in 1..Len(ProviderNames) : ProviderNames[i] = name

Entries(name) ==
    {Entry(IndexOf(name), e, key, ts) :
        e \in BOOLEAN, key \in {RealKey, PlaceholderKey(name)}, ts \in TaskChoices}

KnownConfigs == {cfg \in [Range(ConfigNames) -> UNION {Entries(n) : n \in Range(ConfigNames)}] :
                    \A n \in Range(ConfigNames) : cfg[n] \in Entries(n)}

\* a configuration file with one more entry, under a name without a class
WithUnknown(cfg) == cfg @@ (UnknownName :> Entry(Len(Weights), TRUE, RealKey, AllTasks))

\* the file that create_sample_config writes, for every source every task
SampleConfig ==
    [n \in Range(ConfigNames) |->
        Entry(IndexOf(n), TRUE, SamplePlaceholderKey(n), AllTasks)]

Configs ==
    KnownConfigs \cup {SampleConfig} \cup
    {WithUnknown(cfg) : cfg \in {c \in KnownConfigs :
        \A n \in DOMAIN c : c[n].enabled /\ c[n].api_key = RealKey /\ c[n].tasks = AllTasks}}

ContactPayloads ==
    {[job_title |-> S("Director"), confidence_score |-> N(80)],
     [job_title |-> S("VP"), confidence_score |-> N(60)]}

EmailPayloads ==
    {[is_valid_format |-> B(TRUE), business_likelihood |-> N(80),
      alternative_patterns |-> L(<<"j.doe@acme.com">>)],
     [valid_format |-> B(FALSE), business_likelihood |-> N(40)]}

CompanyPayloads ==
    {[industry_type |-> S("REIT"), company_size |-> S("Large"), confidence_score |-> N(80),
      pain_points |-> L(<<"reporting">>)],
     [industry |-> S("Senior Living"), size_estimate |-> S("Small"), confidence |-> N(60),
      business_challenges |-> L(<<"reporting", "turnover">>)]}

Payloads(t) ==
    CASE t = "contact_research" -> ContactPayloads
      [] t = "email_verification" -> EmailPayloads
      [] t = "company_analysis" -> CompanyPayloads

PostRaises == [t |-> "post_raises"]

BadStatus == [t |-> "bad_status"]

\* the provider rejects the credential: raise_for_status raises on the 401
Unauthorized == [t |-> "unauthorized"]

\* a 2xx response in the provider's shape whose text holds no JSON object
NoJsonText(p) == [t |-> "json", body |-> Body(p, TextOf(<<"x">>, EmptyDict))]

NullBody == [t |-> "json", body |-> [j |-> "null"]]

\* a well-formed answer of the task whose object also has a top-level "error" key
ErrorKeyPayload(t) ==
    (CHOOSE d \in Payloads(t) : TRUE) @@ [error |-> None]

\* what the network can do to one request of a batch
BatchTransports(p, t) ==
    {PostRaises, BadStatus, Unauthorized, NullBody, NoJsonText(p)}
    \cup {Answer(p, d) : d \in Payloads(t) \cup {ErrorKeyPayload(t)}}

----------------------------------------------------------------------------
(* The three consensus operations *)

Pending  == [k |-> "pending"]
InFlight == [k |-> "in_flight"]

NoResult == [none |-> TRUE]

NoCall == [stage |-> "none"]

\* no contact is being researched
NoPipeline == [step |-> "none"]

\* no watch_directory session is under way
NoWatcher == [at |-> "none"]

NoModelsMsg(t) ==
    CASE t = "contact_research" -> "No models enabled for contact research"
      [] t = "email_verification" -> "No models enabled for email verification"
      [] t = "company_analysis" -> "No models enabled for company analysis"

NoValidMsg(t) ==
    CASE t = "contact_research" -> "No valid responses from any model"
      [] t = "email_verification" -> "No valid responses"
      [] t = "company_analysis" -> "No valid responses"

\* the selection loop: initialised models whose configured tasks hold t
SelectModels(cfg, mods, t) == SelectSeq(mods, LAMBDA m : t \in cfg[m].tasks)

\* the selection without the test for an empty batch
NoTasksNever(sel) == FALSE

\* if not tasks
NoTasks(sel) == sel = <<>>

\* a wait that ends with the first completed call
GatherFirstCompleted(outs) == \E i \in 1..Len(outs) : outs[i].k \notin {"pending", "in_flight"}

\* asyncio.gather(*tasks, return_exceptions=True) completes
GatherDone(outs) == \A i \in 1..Len(outs) : outs[i].k \notin {"pending", "in_flight"}

\* the thread of the event loop is inside a blocking requests.post
LoopBlocked(outs) == \E i \in 1..Len(outs) : outs[i].k = "in_flight"

IsException(r) == r.k = "raise"

\* the classification without its test for an error result
HasErrorNever(r) == FALSE

\* a classification that takes for an error only a dict with no other key
HasErrorAlone(r) == IF r.k = "dict" THEN DOMAIN r.d = {"error"} ELSE TRUE

\* "error" in result; a str or list is returned by an adapter only when it holds "error"
HasError(r) == IF r.k = "dict" THEN "error" \in DOMAIN r.d ELSE TRUE

IsValid(r) == ~IsException(r) /\ ~HasError(r)

\* model_responses after the classification loop
ModelResponses(sel, outs) ==
    [n \in Range(sel) |->
        LET i == CHOOSE j \in 1..Len(sel) : sel[j] = n
        IN IF IsException(outs[i]) THEN ErrorDict(outs[i].exc) ELSE outs[i]]

\* valid_results after the classification loop
RECURSIVE ValidResultsFrom(_, _, _)
ValidResultsFrom(sel, outs, i) ==
    IF i > Len(sel) THEN <<>>
    ELSE (IF IsValid(outs[i]) THEN << <<sel[i], outs[i].d>> >> ELSE <<>>)
         \o ValidResultsFrom(sel, outs, i + 1)

\* the valid results with the last of the batch first
ValidResultsLastFirst(sel, outs) ==
    LET v == ValidResultsFrom(sel, outs, 1)
    IN [i \in 1..Len(v) |-> v[Len(v) + 1 - i]]

ValidResults(sel, outs) == ValidResultsFrom(sel, outs, 1)

ModelsUsed(valid) == [i \in 1..Len(valid) |-> valid[i][1]]

BuildConsensus(cfg, mods, t, valid, it) ==
    CASE t = "contact_research" ->
            build_contact_consensus(cfg, mods, valid) @@ [models_used |-> ModelsUsed(valid)]
      [] t = "email_verification" -> build_email_consensus(cfg, valid, it)
      [] t = "company_analysis" -> build_company_consensus(cfg, valid, it)

\* what the operation returns once gather has completed
OperationResult(cfg, mods, t, sel, outs, it) ==
    LET valid == ValidResults(sel, outs)
        model_responses == ModelResponses(sel, outs)
    IN IF valid = <<>>
       THEN [error |-> NoValidMsg(t), model_responses |-> model_responses]
       ELSE [model_responses |-> model_responses] @@ BuildConsensus(cfg, mods, t, valid, it)

Init ==
    /\ config \in Configs
    /\ models = setup_models(config)
    /\ pc = "idle"
    /\ task = "none"
    /\ enabled_models = <<>>
    /\ outcomes = <<>>
    /\ called = {}
    /\ valid_results = <<>>
    /\ result = NoResult
    /\ acall = NoCall
    /\ pipeline = NoPipeline
    /\ watcher = NoWatcher

\* research_contact_consensus / verify_email_consensus / analyze_company_consensus
\* up to the call of gather
StartBatch(t) ==
    /\ pc = "idle"
    /\ task' = t
    /\ LET sel == SelectModels(config, models, t)
       IN /\ enabled_models' = sel
          /\ IF NoTasks(sel)
             THEN /\ pc' = "returned"
                  /\ result' = [error |-> NoModelsMsg(t)]
                  /\ outcomes' = <<>>
             ELSE /\ pc' = "gather"
                  /\ result' = NoResult
                  /\ outcomes' = [i \in 1..Len(sel) |-> Pending]
    /\ called' = {}
    /\ valid_results' = <<>>
    /\ UNCHANGED <<pipeline, watcher, config, models, acall>>

\* the event loop starts the next task of the batch; its coroutine runs up to
\* requests.post, which holds the thread until the response is there
RunTask(i) ==
    /\ pc = "gather"
    /\ i \in 1..Len(outcomes)
    /\ outcomes[i].k = "pending"
    /\ \A j \in 1..(i - 1) : outcomes[j].k # "pending"
    /\ ~LoopBlocked(outcomes)
    /\ outcomes' = [outcomes EXCEPT ![i] = InFlight]
    /\ called' = called \cup {enabled_models[i]}
    /\ UNCHANGED <<pipeline, watcher, config, models, pc, task, enabled_models,
                   valid_results, result, acall>>

\* the request of task i ends and the adapter method runs to its return or raise
Respond(i, transport) ==
    /\ pc = "gather"
    /\ i \in 1..Len(outcomes)
    /\ outcomes[i].k = "in_flight"
    /\ outcomes' = [outcomes EXCEPT ![i] = AdapterResult(enabled_models[i], transport)]
    /\ UNCHANGED <<pipeline, watcher, config, models, pc, task, enabled_models, called,
                   valid_results, result, acall>>

\* a join whose build keeps in the registry only the sources that answered
JoinNarrowingRegistry ==
    /\ pc = "gather"
    /\ GatherDone(outcomes)
    /\ valid_results' = ValidResults(enabled_models, outcomes)
    /\ \E it \in Iterations(task, ValidResults(enabled_models, outcomes)) :
          result' = OperationResult(config, models, task, enabled_models, outcomes, it)
    /\ models' = ModelsUsed(ValidResults(enabled_models, outcomes))
    /\ pc' = "returned"
    /\ UNCHANGED <<pipeline, watcher, config, task, enabled_models, outcomes, called, acall>>

\* gather returns; the results are classified and the consensus is built
Join ==
    /\ pc = "gather"
    /\ GatherDone(outcomes)
    /\ valid_results' = ValidResults(enabled_models, outcomes)
    /\ \E it \in Iterations(task, ValidResults(enabled_models, outcomes)) :
          result' = OperationResult(config, models, task, enabled_models, outcomes, it)
    /\ pc' = "returned"
    /\ UNCHANGED <<pipeline, watcher, config, models, task, enabled_models, outcomes,
                   called, acall>>

\* the caller has the result; the orchestrator is ready for the next query
Finish ==
    /\ pc = "returned"
    /\ pc' = "idle"
    /\ task' = "none"
    /\ enabled_models' = <<>>
    /\ outcomes' = <<>>
    /\ called' = {}
    /\ valid_results' = <<>>
    /\ result' = NoResult
    /\ UNCHANGED <<pipeline, watcher, config, models, acall>>

Next ==
    \/ \E t \in AllTasks : StartBatch(t)
    \/ \E i \in 1..Len(outcomes) : RunTask(i)
    \/ \E i \in 1..Len(outcomes) :
          \E tr \in BatchTransports(enabled_models[i], task) : Respond(i, tr)
    \/ Join
    \/ Finish

Spec == Init /\ [][Next]_vars

----------------------------------------------------------------------------
(* The consensus functions on their own: every list of valid results over   *)
(* the initialised models, in source order.                                 *)

WeightChoices == {<<3, 3, 4, 2>>, <<3, 3, 2, 2>>, <<3, 5, 2, 2>>, <<10, 3, 4, 1>>}

\* every source enabled with a real key and every task
OpenConfig(ws) ==
    [n \in Range(ConfigNames) |->
        [enabled |-> TRUE, api_key |-> RealKey, weight |-> ws[IndexOf(n)], tasks |-> AllTasks]]

ContactOpinions ==
    {[job_title |-> S(v)] @@ c :
        v \in {"Director", "VP"},
        c \in {[confidence_score |-> N(80)], [confidence_score |-> N(60)],
               [confidence |-> S("high")], EmptyDict}}
    \cup
    {[probable_title |-> S("VP Sales"), title |-> S("Director")],
     [job_title |-> S(""), title |-> S("Director"), confidence_score |-> N(100)],
     [department |-> S("Finance"), job_title |-> None, confidence_score |-> N(0)]}

EmailOpinions ==
    EmailPayloads \cup
    {[format_valid |-> B(TRUE), business_probability |-> N(60),
      alternative_emails |-> L(<<"jdoe@acme.com", "j.doe@acme.com">>)],
     [is_valid_format |-> B(FALSE), business_likelihood |-> S("low")],
     [is_valid_format |-> None, valid_format |-> B(TRUE),
      alternative_patterns |-> L(<<>>), alternative_emails |-> L(<<"jdoe@acme.com">>)]}

\* opinions on the scalar fields of a company analysis
CompanyOpinions ==
    {[industry_type |-> S(v)] @@ c :
        v \in {"REIT", "Senior Living"},
        c \in {[confidence_score |-> N(80)], [confidence_score |-> N(60)],
               [confidence |-> S("high")], EmptyDict}}
    \cup
    {[company_size |-> S("Large"), confidence_score |-> N(100)],
     [industry |-> S("REIT"), size_estimate |-> S("Small")],
     [industry_type |-> S(""), industry |-> S("REIT"),
      company_size |-> None, size_estimate |-> S("Small")],
     [confidence_score |-> N(0)]}

\* opinions on the pain points of a company
PainPointOpinions ==
    {[pain_points |-> L(<<"reporting", "turnover", "reporting">>)],
     [business_challenges |-> L(<<"turnover", "compliance", "budgeting">>)],
     [key_challenges |-> L(<<"budgeting", "integration", "training">>)],
     [pain_points |-> L(<<>>), business_challenges |-> L(<<"reporting">>)]}

\* opinions on the consulting opportunities and the web presence of a company
OpportunityOpinions ==
    {[yardi_opportunities |-> L(<<"implementation", "training">>),
      website |-> S("acme.com")],
     [consulting_opportunities |-> L(<<"training", "reporting", "migration">>),
      website_url |-> None, website_estimate |-> S("acme.example")],
     [yardi_opportunities |-> L(<<"training", "implementation">>),
      linkedin_page |-> S("linkedin.com/company/acme")]}

\* opinions on the decision makers of a company
DecisionMakerOpinions ==
    {[target_titles |-> L(<<"CFO", "Controller">>)],
     [target_decision_makers |-> L(<<"Controller", "IT Director", "Property Manager">>)],
     [key_decision_makers |-> L(<<"Property Manager", "CEO", "COO">>)]}

\* the opinions a list of results is drawn from: one family per list.  The
\* list fields of a company analysis take no weight, so their opinions are
\* drawn under the default weights only.
OpinionFamilies(cfg, t) ==
    CASE t = "contact_research" -> {ContactOpinions}
      [] t = "email_verification" -> {EmailOpinions}
      [] t = "company_analysis" ->
            {CompanyOpinions} \cup
            (IF cfg = OpenConfig(Weights)
             THEN {PainPointOpinions, OpportunityOpinions, DecisionMakerOpinions}
             ELSE {})

\* the results of the sources that answered, in source order
RECURSIVE ResultList(_, _)
ResultList(mods, answer) ==
    IF mods = <<>> THEN <<>>
    ELSE (IF answer[Head(mods)] = None THEN <<>> ELSE << <<Head(mods), answer[Head(mods)]>> >>)
         \o ResultList(Tail(mods), answer)

InitConsensus ==
    /\ config \in {OpenConfig(ws) : ws \in WeightChoices}
    /\ models = setup_models(config)
    /\ pc = "input"
    /\ task \in AllTasks
    /\ \E family \in OpinionFamilies(config, task) :
          \E answer \in [Range(models) -> family \cup {None}] :
              valid_results = ResultList(models, answer)
    /\ valid_results # <<>>
    /\ enabled_models = <<>>
    /\ outcomes = <<>>
    /\ called = {}
    /\ result = NoResult
    /\ acall = NoCall
    /\ pipeline = NoPipeline
    /\ watcher = NoWatcher

ApplyContact ==
    /\ pc = "input"
    /\ task = "contact_research"
    /\ result' = build_contact_consensus(config, models, valid_results)
    /\ pc' = "applied"
    /\ UNCHANGED <<pipeline, watcher, config, models, task, enabled_models, outcomes,
                   called, valid_results, acall>>

ApplyEmail ==
    /\ pc = "input"
    /\ task = "email_verification"
    /\ \E it \in Iterations(task, valid_results) :
          result' = build_email_consensus(config, valid_results, it)
    /\ pc' = "applied"
    /\ UNCHANGED <<pipeline, watcher, config, models, task, enabled_models, outcomes,
                   called, valid_results, acall>>

ApplyCompany ==
    /\ pc = "input"
    /\ task = "company_analysis"
    /\ \E it \in Iterations(task, valid_results) :
          result' = build_company_consensus(config, valid_results, it)
    /\ pc' = "applied"
    /\ UNCHANGED <<pipeline, watcher, config, models, task, enabled_models, outcomes,
                   called, valid_results, acall>>

NextConsensus == ApplyContact \/ ApplyEmail \/ ApplyCompany

ConsensusSpec == InitConsensus /\ [][NextConsensus]_vars

----------------------------------------------------------------------------
(* The orchestrator over the lifetime of a process *)

\* one process over its lifetime, every source enabled with a real key: the
\* caller keeps putting queries (process_csv_contacts goes row by row) and a
\* batch under way runs to its return
InitProcess == Init /\ config = OpenConfig(Weights)

ProcessSpec == InitProcess /\ [][Next]_vars /\ WF_vars(Next)

----------------------------------------------------------------------------
(* The research of one contact: research_single_contact, and the body of    *)
(* the loop of process_csv_contacts.  pipeline.step is the last assignment  *)
(* made; the operation under way is in pc and task.                         *)

PipelineContactPayloads ==
    {[job_title |-> S("Director"), email |-> S("j.doe@acme.com")],
     [job_title |-> S("VP"), email_address |-> S("")]}

\* what the network does to one request made while a contact is researched
PipelineTransports(p, t) ==
    {PostRaises} \cup
    {Answer(p, d) : d \in (IF t = "contact_research" THEN PipelineContactPayloads
                           ELSE {CHOOSE d \in Payloads(t) : TRUE})}

\* a test that takes the key for the value
EmailKeyPresent(contact_result) == "email" \in DOMAIN contact_result

\* if contact_result.get("email")
EmailFound(contact_result) == Truthy(Get(contact_result, "email", None))

\* the assignment that follows the return of operation t
StepAfter(t) ==
    CASE t = "contact_research" -> "contact"
      [] t = "company_analysis" -> "company"
      [] t = "email_verification" -> "email"
      [] OTHER -> "none"

InitPipeline ==
    /\ config = OpenConfig(Weights)
    /\ models = setup_models(config)
    /\ pc = "idle"
    /\ task = "none"
    /\ enabled_models = <<>>
    /\ outcomes = <<>>
    /\ called = {}
    /\ valid_results = <<>>
    /\ result = NoResult
    /\ acall = NoCall
    /\ pipeline = [step |-> "start", contact_result |-> NoResult, ran |-> <<>>]
    /\ watcher = NoWatcher

\* await self.orchestrator.research_contact_consensus(contact_info)
CallContact ==
    /\ pipeline.step = "start"
    /\ StartBatch("contact_research")

\* await self.orchestrator.analyze_company_consensus(company)
CallCompany ==
    /\ pipeline.step = "contact"
    /\ StartBatch("company_analysis")

\* if contact_result.get("email"): await self.orchestrator.verify_email_consensus(...)
CallEmail ==
    /\ pipeline.step = "company"
    /\ EmailFound(pipeline.contact_result)
    /\ StartBatch("email_verification")

\* the awaited operation has returned and its result is assigned
TakeResult ==
    /\ pc = "returned"
    /\ pipeline.step # StepAfter(task)
    /\ pipeline' = [step |-> StepAfter(task),
                    contact_result |->
                        IF task = "contact_research" THEN result
                        ELSE pipeline.contact_result,
                    ran |-> Append(pipeline.ran, task)]
    /\ UNCHANGED <<watcher, config, models, pc, task, enabled_models, outcomes, called,
                   valid_results, result, acall>>

\* the orchestrator is idle again before the next statement of the caller
Resume ==
    /\ pipeline.step = StepAfter(task)
    /\ Finish

\* the results are compiled and returned, with or without an email verification
Compile ==
    /\ pc = "idle"
    /\ \/ pipeline.step = "email"
       \/ pipeline.step = "company" /\ ~EmailFound(pipeline.contact_result)
    /\ pipeline' = [pipeline EXCEPT !.step = "done"]
    /\ UNCHANGED <<watcher, config, models, pc, task, enabled_models, outcomes, called,
                   valid_results, result, acall>>

\* the next contact: the next row of the CSV file, or the next call
NextContact ==
    /\ pipeline.step = "done"
    /\ pipeline' = [step |-> "start", contact_result |-> NoResult, ran |-> <<>>]
    /\ UNCHANGED <<watcher, config, models, pc, task, enabled_models, outcomes, called,
                   valid_results, result, acall>>

NextPipeline ==
    \/ CallContact
    \/ CallCompany
    \/ CallEmail
    \/ \E i \in 1..Len(outcomes) : RunTask(i)
    \/ \E i \in 1..Len(outcomes) :
          \E tr \in PipelineTransports(enabled_models[i], task) : Respond(i, tr)
    \/ Join
    \/ TakeResult
    \/ Resume
    \/ Compile
    \/ NextContact

PipelineSpec == InitPipeline /\ [][NextPipeline]_vars

----------------------------------------------------------------------------
(* A watch_directory session (prism_openmanus_integration.py).  A path is   *)
(* a file name with its extension; the directory changes under the session. *)

MaxCalls == 2

Paths ==
    {[stem |-> "a", ext |-> "csv"], [stem |-> "b", ext |-> "xlsx"],
     [stem |-> "c", ext |-> "txt"]}

\* file_patterns when none are given: ["*.csv", "*.xlsx", "*.pdf"]
FilePatterns == <<"csv", "xlsx", "pdf">>

\* the path is among watch_dir.glob(pattern) for one of the patterns
Globbed(dir, f) == f \in dir /\ f.ext \in Range(FilePatterns)

\* the keys a session keeps only of files whose processing succeeded
RememberedOnSuccess(f, status) == IF status = "success" THEN {f} ELSE {}

\* processed_files.add(file_key), after process_document whatever its status
Remembered(f, status) == {f}

\* _archive_processed_file: the rename, or nothing when it raises
ArchiveProcessedFile(w, f) ==
    IF f \in w.dir
    THEN [w EXCEPT !.dir = @ \ {f}, !.archived = @ \cup {f}]
    ELSE w

InitWatcher ==
    /\ config = OpenConfig(Weights)
    /\ models = setup_models(config)
    /\ pc = "idle"
    /\ task = "none"
    /\ enabled_models = <<>>
    /\ outcomes = <<>>
    /\ called = {}
    /\ valid_results = <<>>
    /\ result = NoResult
    /\ acall = NoCall
    /\ pipeline = NoPipeline
    /\ \E dir \in SUBSET Paths :
          watcher = [at |-> "scan", dir |-> dir, processed_files |-> {},
                     current |-> None, calls |-> [f \in Paths |-> 0],
                     status |-> [f \in Paths |-> "none"], archived |-> {}]

\* a file is put into the watched directory
FileArrives(f) ==
    /\ watcher.at \in {"scan", "processing"}
    /\ f \notin watcher.dir
    /\ watcher' = [watcher EXCEPT !.dir = @ \cup {f}]
    /\ UNCHANGED <<pipeline, config, models, pc, task, enabled_models, outcomes, called,
                   valid_results, result, acall>>

\* a file is taken out of the watched directory by someone else
FileLeaves(f) ==
    /\ watcher.at \in {"scan", "processing"}
    /\ f \in watcher.dir
    /\ watcher' = [watcher EXCEPT !.dir = @ \ {f}]
    /\ UNCHANGED <<pipeline, config, models, pc, task, enabled_models, outcomes, called,
                   valid_results, result, acall>>

\* the scan comes to a file whose key is not in processed_files and calls
\* process_document
Detect(f) ==
    /\ watcher.at = "scan"
    /\ Globbed(watcher.dir, f)
    /\ f \notin watcher.processed_files
    /\ watcher.calls[f] < MaxCalls
    /\ watcher' = [watcher EXCEPT !.at = "processing", !.current = f,
                                  !.calls[f] = @ + 1]
    /\ UNCHANGED <<pipeline, config, models, pc, task, enabled_models, outcomes, called,
                   valid_results, result, acall>>

\* process_document returns with a status; the key is added and a file
\* processed with success is archived
Processed(status) ==
    /\ watcher.at = "processing"
    /\ LET f == watcher.current
           w == [watcher EXCEPT !.at = "scan", !.current = None,
                                !.processed_files = @ \cup Remembered(f, status),
                                !.status[f] = status]
       IN watcher' = IF status = "success" THEN ArchiveProcessedFile(w, f) ELSE w
    /\ UNCHANGED <<pipeline, config, models, pc, task, enabled_models, outcomes, called,
                   valid_results, result, acall>>

\* KeyboardInterrupt, or the cancellation of the task: the session ends
StopWatching ==
    /\ watcher.at \in {"scan", "processing"}
    /\ watcher' = [watcher EXCEPT !.at = "stopped"]
    /\ UNCHANGED <<pipeline, config, models, pc, task, enabled_models, outcomes, called,
                   valid_results, result, acall>>

NextWatcher ==
    \/ \E f \in Paths : FileArrives(f)
    \/ \E f \in Paths : FileLeaves(f)
    \/ \E f \in Paths : Detect(f)
    \/ \E status \in {"success", "error"} : Processed(status)
    \/ StopWatching

WatcherSpec == InitWatcher /\ [][NextWatcher]_vars

----------------------------------------------------------------------------
(* One adapter call on its own, over what the transport can deliver.        *)

Texts ==
    {<<"x">>, <<"{", "k", "}">>, <<"x", "{", "k", "}", "x">>, <<"{", "x", "}">>,
     <<"{", "k", "}", "x", "{", "k", "}">>, <<"x", "}">>, <<"}", "x", "{">>}

Contents(t) ==
    {TextOf(txt, d) : txt \in Texts, d \in Payloads(t)} \cup {None}

Bodies(t) ==
    {[j |-> "null"], [j |-> "number"]}
    \cup {[j |-> k, has_error |-> e] : k \in {"string", "list"}, e \in BOOLEAN}
    \cup {[j |-> "object", has_error |-> e, path |-> pth, content |-> c] :
             e \in BOOLEAN, pth \in {"choices", "content", "candidates", "none"},
             c \in Contents(t)}

Transports(t) ==
    {[t |-> k] : k \in {"post_raises", "bad_status", "unauthorized", "body_not_json"}}
    \cup {[t |-> "json", body |-> b] : b \in Bodies(t)}

InitAdapter ==
    /\ config = OpenConfig(Weights)
    /\ models = setup_models(config)
    /\ pc = "adapter"
    /\ task \in AllTasks
    /\ acall \in {[stage |-> "called", provider |-> p, transport |-> tr,
                   response |-> None, ret |-> None] :
                     p \in Range(ProviderNames), tr \in Transports(task)}
    /\ enabled_models = <<>>
    /\ outcomes = <<>>
    /\ called = {}
    /\ valid_results = <<>>
    /\ result = NoResult
    /\ pipeline = NoPipeline
    /\ watcher = NoWatcher

\* response = await self._make_request(...)
AwaitRequest ==
    /\ acall.stage = "called"
    /\ acall' = [acall EXCEPT !.stage = "requested", !.response = _make_request(acall.transport)]
    /\ UNCHANGED <<pipeline, watcher, config, models, pc, task, enabled_models, outcomes, called,
                   valid_results, result>>

\* the rest of the adapter method, to its return or raise
AdapterReturns ==
    /\ acall.stage = "requested"
    /\ acall' = [acall EXCEPT !.stage = "resolved",
                              !.ret = AdapterReturn(acall.provider, acall.response)]
    /\ UNCHANGED <<pipeline, watcher, config, models, pc, task, enabled_models, outcomes, called,
                   valid_results, result>>

NextAdapter == AwaitRequest \/ AdapterReturns

AdapterSpec == InitAdapter /\ [][NextAdapter]_vars

----------------------------------------------------------------------------
(* Properties *)

Contact == "contact_research"
Email   == "email_verification"
Company == "company_analysis"

\* an adapter call that raised or returned an error result
OutcomeFailed(r) ==
    \/ r.k = "raise"
    \/ r.k = "value"
    \/ r.k = "dict" /\ "error" \in DOMAIN r.d

OutcomeKnown(r) == r.k \in {"raise", "value", "dict"}

Contributing == {i \in 1..Len(outcomes) : OutcomeKnown(outcomes[i]) /\ ~OutcomeFailed(outcomes[i])}

\* summed weight of the responses that carry value v
SummedWeight(responses, v) ==
    SumSeq([i \in 1..Len(responses) |-> IF responses[i][1] = v THEN responses[i][2] ELSE 0])

PluralityWinners(responses) ==
    {responses[i][1] : i \in {j \in 1..Len(responses) :
        \A m \in 1..Len(responses) :
            SummedWeight(responses, responses[m][1]) <= SummedWeight(responses, responses[j][1])}}

\* C1: for every scalar contact field with at least one response,
\* build_contact_consensus returns a value whose summed weight over the
\* opinions sharing it is the largest.
C1_WeightedPlurality ==
    (pc = "applied" /\ task = Contact) =>
        \A f \in Range(ContactFields) :
            LET responses == FieldResponses(config, valid_results, f)
            IN responses # <<>> => result[f] \in PluralityWinners(responses)

\* the scenario of C2: three configured sources, all selected; one of weight 0.3
\* fails in transport, one of weight 0.3 answers Director with confidence 80 and
\* one of weight 0.4 answers VP with confidence 60
C2_Scenario ==
    /\ pc = "returned"
    /\ task = Contact
    /\ Cardinality(DOMAIN config) = 3
    /\ Len(enabled_models) = 3
    /\ \E a, b, c \in 1..3 :
          /\ config[enabled_models[a]].weight = 3
          /\ config[enabled_models[b]].weight = 3
          /\ config[enabled_models[c]].weight = 4
          /\ a # b
          /\ outcomes[a] = ErrorDict("request failed")
          /\ outcomes[b].k = "dict"
          /\ "error" \notin DOMAIN outcomes[b].d
          /\ Get(outcomes[b].d, "job_title", None) = S("Director")
          /\ Get(outcomes[b].d, "confidence_score", None) = N(80)
          /\ outcomes[c].k = "dict"
          /\ "error" \notin DOMAIN outcomes[c].d
          /\ Get(outcomes[c].d, "job_title", None) = S("VP")
          /\ Get(outcomes[c].d, "confidence_score", None) = N(60)

\* C2: in that scenario the contact consensus has job_title VP,
\* confidence_score (80*0.3 + 60*0.4) / (0.3 + 0.4) and consensus_strength 2/3.
C2_EndToEnd ==
    C2_Scenario =>
        /\ "job_title" \in DOMAIN result
        /\ result.job_title = S("VP")
        /\ RatEq(result.confidence_score, Rat(80 * 3 + 60 * 4, 3 + 4))
        /\ RatEq(result.consensus_strength, Rat(2, 3))

C2_Witness == C2_Scenario /\ "job_title" \in DOMAIN result

NumericContact == {i \in 1..Len(valid_results) : IsNumber(ContactConfOf(valid_results[i][2]))}

\* C3: the contact confidence_score is the sum of confidence * weight over the
\* opinions with a numeric confidence, divided by the summed weight of those
\* same opinions only.
C3_ConfidenceOverNumericWeights ==
    (pc = "applied" /\ task = Contact /\ NumericContact # {}) =>
        RatEq(result.confidence_score,
              Rat(SumSeq([i \in 1..Len(valid_results) |->
                      IF i \in NumericContact
                      THEN NumberOf(ContactConfOf(valid_results[i][2]))
                           * config[valid_results[i][1]].weight
                      ELSE 0]),
                  SumSeq([i \in 1..Len(valid_results) |->
                      IF i \in NumericContact THEN config[valid_results[i][1]].weight ELSE 0])))

AllNumericCompany ==
    \A i \in 1..Len(valid_results) : IsNumber(CompanyConfOf(valid_results[i][2]))

\* C4: when every opinion carries a numeric confidence, the company
\* confidence_score is the weighted mean of the confidences, normalised by the
\* summed weight of the sources in the response set.
C4_CompanyWeightedMean ==
    (pc = "applied" /\ task = Company /\ AllNumericCompany) =>
        RatEq(result.confidence_score,
              Rat(SumSeq([i \in 1..Len(valid_results) |->
                      NumberOf(CompanyConfOf(valid_results[i][2]))
                      * config[valid_results[i][1]].weight]),
                  SumSeq([i \in 1..Len(valid_results) |-> config[valid_results[i][1]].weight])))

ContactConsensusReturned ==
    pc = "returned" /\ task = Contact /\ Contributing # {}

\* sources that setup_models initialises: enabled, a credential other than
\* your-<name>-api-key, and one of the four provider names
Initialised ==
    {n \in DOMAIN config :
        /\ config[n].enabled
        /\ config[n].api_key # PlaceholderKey(n)
        /\ n \in Range(ProviderNames)}

AllSelectedFailed ==
    /\ pc = "returned"
    /\ enabled_models # <<>>
    /\ \A i \in 1..Len(outcomes) : OutcomeFailed(outcomes[i])

\* C6: when every selected adapter call failed, the operation returns the
\* no-valid-responses error with no consensus field and one failure entry per
\* attempted source.
C6_AllFailedIsError ==
    AllSelectedFailed =>
        /\ DOMAIN result = {"error", "model_responses"}
        /\ result.error = NoValidMsg(task)
        /\ DOMAIN result.model_responses = Range(enabled_models)
        /\ \A n \in Range(enabled_models) : OutcomeFailed(result.model_responses[n])

C6_Witness ==
    /\ AllSelectedFailed
    /\ \E i, j \in 1..Len(outcomes) : outcomes[i].k = "raise" /\ outcomes[j].k = "dict"
    /\ "error" \in DOMAIN result

\* initialised sources whose configured task list holds the running task
EligibleNow == {n \in Initialised : task \in config[n].tasks}

\* C7: with no initialised source eligible for the task the operation returns
\* the no-models-enabled error without starting any adapter call, and that
\* error differs from every no-valid-responses error; with eligible sources
\* the no-models-enabled error is never returned.
C7_NoEligibleSources ==
    pc = "returned" =>
        /\ EligibleNow = {} => (result = [error |-> NoModelsMsg(task)] /\ called = {})
        /\ EligibleNow # {} => ("error" \in DOMAIN result => result.error # NoModelsMsg(task))
        /\ \A t \in AllTasks : NoModelsMsg(task) # NoValidMsg(t)

C7_Witness ==
    /\ pc = "returned"
    /\ Initialised # {}
    /\ EligibleNow = {}
    /\ result = [error |-> NoModelsMsg(task)]

\* C8: an operation that started a batch returns only when every selected
\* call has an outcome, every outcome is recorded under its source, and every
\* valid outcome is among the results the consensus is built from.
C8_CollectsEveryOutcome ==
    (pc = "returned" /\ enabled_models # <<>>) =>
        /\ \A i \in 1..Len(outcomes) : OutcomeKnown(outcomes[i])
        /\ DOMAIN result.model_responses = Range(enabled_models)
        /\ \A i \in 1..Len(outcomes) :
              ~OutcomeFailed(outcomes[i]) =>
                  /\ <<enabled_models[i], outcomes[i].d>> \in Range(valid_results)
                  /\ result.model_responses[enabled_models[i]] = outcomes[i]
        /\ Len(valid_results) = Cardinality(Contributing)

C8_Witness ==
    /\ pc = "returned"
    /\ Len(enabled_models) = 3
    /\ outcomes[1].k = "raise"
    /\ OutcomeFailed(outcomes[2])
    /\ outcomes[2].k = "dict"
    /\ ~OutcomeFailed(outcomes[3])
    /\ Len(valid_results) = 1

\* C9: while the request of one selected source awaits its response, the
\* request of any selected source that has not started yet can start.
C9_RequestsOverlap ==
    pc = "gather" =>
        \A i, j \in 1..Len(outcomes) :
            (outcomes[i].k = "in_flight" /\ outcomes[j].k = "pending") => ENABLED RunTask(j)

\* C10: every adapter call resolves to a returned payload or error value;
\* no exception leaves the adapter.
C10_AdapterNeverRaises ==
    acall.stage = "resolved" => acall.ret.k \in {"dict", "value"}

CompanyApplied == pc = "applied" /\ task = Company

\* <<value, weight>> of every result whose value for a field is truthy, in result order
Supplied(Value(_)) ==
    LET hits == SelectSeq(valid_results, LAMBDA r : Truthy(Value(r[2])))
    IN [i \in 1..Len(hits) |-> <<Value(hits[i][2]), config[hits[i][1]].weight>>]

\* C11: build_company_consensus returns for industry_type and company_size a
\* value of largest weight summed over the opinions sharing it, and the
\* defaults "Other" and "Unknown" when no opinion supplies the field.
C11_CompanyWeightedPlurality ==
    CompanyApplied =>
        LET industries == Supplied(CompanyIndustry)
            sizes      == Supplied(CompanySize)
        IN /\ industries # <<>> => result.industry_type \in PluralityWinners(industries)
           /\ industries = <<>> => result.industry_type = S("Other")
           /\ sizes # <<>> => result.company_size \in PluralityWinners(sizes)
           /\ sizes = <<>> => result.company_size = S("Unknown")

\* two light sources that agree outweigh the heaviest one; nobody gives a size
C11_Witness ==
    /\ CompanyApplied
    /\ Len(valid_results) = 3
    /\ config[valid_results[1][1]].weight = 3
    /\ config[valid_results[2][1]].weight = 3
    /\ config[valid_results[3][1]].weight = 4
    /\ CompanyIndustry(valid_results[1][2]) = S("REIT")
    /\ CompanyIndustry(valid_results[2][2]) = S("REIT")
    /\ CompanyIndustry(valid_results[3][2]) = S("Senior Living")
    /\ result.industry_type = S("REIT")
    /\ result.company_size = S("Unknown")

\* the value among winners that the results give first
FirstEncountered(responses, winners) ==
    responses[Min({i \in 1..Len(responses) : responses[i][1] \in winners})][1]

\* C12: when several values share the largest summed weight,
\* build_company_consensus returns the one encountered first in result order.
C12_TieBreakFirstEncountered ==
    CompanyApplied =>
        LET industries == Supplied(CompanyIndustry)
            sizes      == Supplied(CompanySize)
        IN /\ industries # <<>> =>
                 result.industry_type = FirstEncountered(industries, PluralityWinners(industries))
           /\ sizes # <<>> =>
                 result.company_size = FirstEncountered(sizes, PluralityWinners(sizes))

\* A (0.3), B (0.5), A (0.2) in that order: A and B tie at 0.5 and A is returned
C12_Witness ==
    /\ CompanyApplied
    /\ Len(valid_results) = 3
    /\ config[valid_results[1][1]].weight = 3
    /\ config[valid_results[2][1]].weight = 5
    /\ config[valid_results[3][1]].weight = 2
    /\ CompanyIndustry(valid_results[1][2]) = S("REIT")
    /\ CompanyIndustry(valid_results[2][2]) = S("Senior Living")
    /\ CompanyIndustry(valid_results[3][2]) = S("REIT")
    /\ Cardinality(PluralityWinners(Supplied(CompanyIndustry))) = 2
    /\ result.industry_type = S("REIT")

ContactApplied == pc = "applied" /\ task = Contact

\* the value of the first alias, in priority order, that a payload holds with a
\* truthy value; None when it holds none
RECURSIVE FirstTruthyAlias(_, _)
FirstTruthyAlias(res, aliases) ==
    IF aliases = <<>> THEN None
    ELSE IF Head(aliases) \in DOMAIN res /\ Truthy(res[Head(aliases)])
         THEN res[Head(aliases)]
         ELSE FirstTruthyAlias(res, Tail(aliases))

\* the values the results supply for a contact field
ContactVotes(f) ==
    {FirstTruthyAlias(valid_results[i][2], field_mapping(f)) : i \in 1..Len(valid_results)}
    \ {None}

\* C13: for every contact field, build_contact_consensus takes from each
\* payload the value of the first alias present with a truthy value, ignoring
\* later aliases; a payload with no truthy alias gives no vote, and a field
\* with no vote has no value.
C13_ContactFirstTruthyAlias ==
    ContactApplied =>
        \A f \in Range(ContactFields) :
            IF ContactVotes(f) = {} THEN result[f] = None ELSE result[f] \in ContactVotes(f)

\* {probable_title: "VP Sales", title: "Director"} alone gives job_title "VP Sales"
C13_Witness ==
    /\ ContactApplied
    /\ Len(valid_results) = 1
    /\ DOMAIN valid_results[1][2] = {"probable_title", "title"}
    /\ valid_results[1][2].probable_title = S("VP Sales")
    /\ valid_results[1][2].title = S("Director")
    /\ result.job_title = S("VP Sales")
    /\ result.department = None

EmailApplied == pc = "applied" /\ task = Email

OrElse(v, default) == IF v = None THEN default ELSE v

ItemsOf(v) == IF v = None THEN {} ELSE Range(v.list)

\* C14: the value build_company_consensus and build_email_consensus take from
\* a payload for a field is that of the first alias with a truthy value, so
\* that a falsy earlier alias does not hide a truthy later one; stated on the
\* consensus of a single payload.
C14_CompanyEmailFirstTruthyAlias ==
    /\ (CompanyApplied /\ Len(valid_results) = 1) =>
          LET res == valid_results[1][2]
              Taken(f) == FirstTruthyAlias(res, CompanyAliases(f))
          IN /\ result.industry_type = OrElse(Taken("industry_type"), S("Other"))
             /\ result.company_size = OrElse(Taken("company_size"), S("Unknown"))
             /\ Range(result.pain_points) = ItemsOf(Taken("pain_points"))
             /\ Range(result.yardi_opportunities) = ItemsOf(Taken("yardi_opportunities"))
             /\ Range(result.target_decision_makers) = ItemsOf(Taken("target_decision_makers"))
             /\ result.website_url = Taken("website_url")
             /\ result.linkedin_company_url = Taken("linkedin_company_url")
    /\ (EmailApplied /\ Len(valid_results) = 1) =>
          LET res == valid_results[1][2]
              Taken(f) == FirstTruthyAlias(res, EmailAliases(f))
          IN /\ result.is_valid_format = (Taken("is_valid_format") # None)
             /\ Range(result.alternative_emails) = ItemsOf(Taken("alternative_emails"))

Responders == {valid_results[i][1] : i \in 1..Len(valid_results)}

\* summed weight of the results whose validity value is truthy / of all results
TrueWeight ==
    SumSeq([i \in 1..Len(valid_results) |->
               IF Truthy(EmailIsValid(valid_results[i][2]))
               THEN config[valid_results[i][1]].weight ELSE 0])

PresentWeight ==
    SumSeq([i \in 1..Len(valid_results) |-> config[valid_results[i][1]].weight])

ConfiguredWeight ==
    SumSeq([i \in 1..Len(ConfigNames) |-> config[ConfigNames[i]].weight])

\* the configuration with other weights for the sources that did not respond
Reweighted(ws) ==
    [n \in DOMAIN config |->
        IF n \in Responders THEN config[n] ELSE [config[n] EXCEPT !.weight = ws[IndexOf(n)]]]

\* C15: is_valid_format is true exactly when the summed weight of the opinions
\* voting true is strictly more than half the summed weight of the opinions
\* present, whatever the weights of the sources that did not respond.
C15_EmailStrictMajorityOfPresent ==
    EmailApplied =>
        /\ result.is_valid_format = (2 * TrueWeight > PresentWeight)
        /\ \A ws \in WeightChoices, it \in Iterations(task, valid_results) :
              build_email_consensus(Reweighted(ws), valid_results, it).is_valid_format
                  = result.is_valid_format

\* a true vote of weight 0.4 against a false vote of weight 0.3, the third
\* source silent: more than half of what is present, less than half of what is configured
C15_Witness ==
    /\ EmailApplied
    /\ Len(valid_results) = 2
    /\ Cardinality(DOMAIN config) > 2
    /\ TrueWeight = 4
    /\ PresentWeight = 7
    /\ 2 * TrueWeight < ConfiguredWeight
    /\ result.is_valid_format

\* the de-duplicated union of the lists the results give for a field
UnionOf(ListValue(_)) ==
    UNION {Range(ListValue(valid_results[i][2]).list) : i \in 1..Len(valid_results)}

NoDuplicates(q) == \A i, j \in 1..Len(q) : q[i] = q[j] => i = j

\* a list of distinct elements of a union, as long as the cap and the union allow
CappedUnion(q, union, cap) ==
    /\ Len(q) <= cap
    /\ NoDuplicates(q)
    /\ Range(q) \subseteq union
    /\ Len(q) = (IF Cardinality(union) < cap THEN Cardinality(union) ELSE cap)

\* C16: build_company_consensus returns at most 5 pain_points, 3
\* yardi_opportunities and 5 target_decision_makers; each list is free of
\* duplicates, holds only elements of the opinions' lists and has length
\* min(cap, size of the de-duplicated union).
C16_CappedLists ==
    CompanyApplied =>
        /\ CappedUnion(result.pain_points, UnionOf(CompanyPoints), 5)
        /\ CappedUnion(result.yardi_opportunities, UnionOf(CompanyOpps), 3)
        /\ CappedUnion(result.target_decision_makers, UnionOf(CompanyTitles), 5)

\* three opinions with six distinct pain points between them, one named twice
C16_Witness ==
    /\ CompanyApplied
    /\ Len(valid_results) = 3
    /\ Cardinality(UnionOf(CompanyPoints)) = 6
    /\ \E i \in 1..3 : ~NoDuplicates(CompanyPoints(valid_results[i][2]).list)
    /\ Len(result.pain_points) = 5

\* the results in every processing order
Orders == ListOfSet(Range(valid_results))

Twice == valid_results \o valid_results

\* some result gives a list for a set-valued field
SuppliesList ==
    \E i \in 1..Len(valid_results) :
        LET res == valid_results[i][2]
        IN \/ Truthy(CompanyPoints(res)) \/ Truthy(CompanyOpps(res))
           \/ Truthy(CompanyTitles(res)) \/ Truthy(EmailAlternatives(res))

\* C17: the membership of the union built for pain_points, opportunities,
\* target titles and alternative_emails is the same for every processing
\* order of the results, processing the results twice adds nothing, and a
\* union within its cap is the membership of the returned field.
C17_UnionCommutativeIdempotent ==
    /\ (pc = "input" /\ SuppliesList) =>
          \A order \in Orders \cup {Twice} :
              /\ PainPoints(order, {}) = PainPoints(valid_results, {})
              /\ Opportunities(order, {}) = Opportunities(valid_results, {})
              /\ DecisionMakers(order, {}) = DecisionMakers(valid_results, {})
              /\ AlternativeEmails(order, {}) = AlternativeEmails(valid_results, {})
    /\ CompanyApplied =>
          /\ Cardinality(UnionOf(CompanyPoints)) <= 5 =>
                Range(result.pain_points) = UnionOf(CompanyPoints)
          /\ Cardinality(UnionOf(CompanyOpps)) <= 3 =>
                Range(result.yardi_opportunities) = UnionOf(CompanyOpps)
          /\ Cardinality(UnionOf(CompanyTitles)) <= 5 =>
                Range(result.target_decision_makers) = UnionOf(CompanyTitles)
    /\ EmailApplied =>
          Range(result.alternative_emails) = UnionOf(EmailAlternatives)

\* three opinions with overlapping lists of pain points, five in all
C17_Witness ==
    /\ CompanyApplied
    /\ Len(valid_results) = 3
    /\ \A i \in 1..3 : Truthy(CompanyPoints(valid_results[i][2]))
    /\ \E i, j \in 1..3 :
          /\ Range(CompanyPoints(valid_results[i][2]).list)
                \cap Range(CompanyPoints(valid_results[j][2]).list) # {}
          /\ Range(CompanyPoints(valid_results[i][2]).list)
                # Range(CompanyPoints(valid_results[j][2]).list)
    /\ Cardinality(Range(result.pain_points)) = 5
    /\ Range(result.pain_points) = UnionOf(CompanyPoints)

\* every weight in (0,1] and every numeric confidence in [0,100]
ConfidenceInputsInRange ==
    /\ \A n \in DOMAIN config : config[n].weight \in 1..10
    /\ \A i \in 1..Len(valid_results) :
          LET conf == IF task = Contact THEN ContactConfOf(valid_results[i][2])
                      ELSE CompanyConfOf(valid_results[i][2])
          IN IsNumber(conf) => NumberOf(conf) \in 0..100

\* C18: with weights in (0,1] and confidences in [0,100], the confidence_score
\* of build_contact_consensus and of build_company_consensus lies in [0,100].
C18_ConfidenceWithinBounds ==
    ((ContactApplied \/ CompanyApplied) /\ ConfidenceInputsInRange) =>
        /\ RatLeq(Rat(0, 1), result.confidence_score)
        /\ RatLeq(result.confidence_score, Rat(100, 1))

\* opinions at both ends of the scale under a source of weight 1.0
C18_Witness ==
    /\ ContactApplied
    /\ ConfidenceInputsInRange
    /\ Len(valid_results) = 3
    /\ config[valid_results[1][1]].weight = 10
    /\ \E i, j \in 1..3 :
          /\ ContactConfOf(valid_results[i][2]) = N(100)
          /\ ContactConfOf(valid_results[j][2]) = N(0)
    /\ result.confidence_score.num > 0
    /\ RatLeq(result.confidence_score, Rat(100, 1))

\* the distinct values the results supply for a company field
ValuesOf(Value(_)) ==
    {Value(valid_results[i][2]) :
        i \in {j \in 1..Len(valid_results) : Truthy(Value(valid_results[j][2]))}}

TheOne(set) == CHOOSE v \in set : TRUE

\* C19: a scalar field for which the opinions supply exactly one distinct
\* value gets that value, whatever the weights of the sources.
C19_SingleValueChosen ==
    /\ ContactApplied =>
          \A f \in Range(ContactFields) :
              Cardinality(ContactVotes(f)) = 1 => result[f] = TheOne(ContactVotes(f))
    /\ CompanyApplied =>
          /\ Cardinality(ValuesOf(CompanyIndustry)) = 1 =>
                result.industry_type = TheOne(ValuesOf(CompanyIndustry))
          /\ Cardinality(ValuesOf(CompanySize)) = 1 =>
                result.company_size = TheOne(ValuesOf(CompanySize))

\* three sources of unequal weight that all say Director
C19_Witness ==
    /\ ContactApplied
    /\ Len(valid_results) = 3
    /\ config[valid_results[1][1]].weight = 3
    /\ config[valid_results[2][1]].weight = 5
    /\ config[valid_results[3][1]].weight = 2
    /\ ContactVotes("job_title") = {S("Director")}
    /\ \A i \in 1..3 : FirstTruthyAlias(valid_results[i][2], field_mapping("job_title")) # None
    /\ result.job_title = S("Director")

\* configured sources that are enabled and hold the running task
EnabledEligible == {n \in DOMAIN config : config[n].enabled /\ task \in config[n].tasks}

\* C20: the sources whose adapter a batch has called are exactly the
\* configured sources that are enabled and eligible for the task.
C20_CalledExactlyEnabledEligible ==
    pc = "returned" => called = EnabledEligible

\* the placeholder credentials that the default and the sample configuration write
KnownPlaceholders(n) == {PlaceholderKey(n), SamplePlaceholderKey(n)}

\* C21: a source whose credential is a placeholder of the default or of the
\* sample configuration is never selected for a batch and never called.
C21_PlaceholderSourcesAbsent ==
    \A n \in DOMAIN config :
        config[n].api_key \in KnownPlaceholders(n) =>
            /\ n \notin Range(enabled_models)
            /\ n \notin called

\* the call of source n in the running batch failed on a rejected credential
CredentialRejected(n) ==
    \E i \in 1..Len(outcomes) :
        enabled_models[i] = n /\ outcomes[i] = ErrorDict("401 Client Error: Unauthorized")

\* the adapter of source n is being called
Calling(n) ==
    \E i \in 1..Len(outcomes) : enabled_models[i] = n /\ outcomes[i].k = "in_flight"

\* C22: once a call of a source has failed on a rejected credential, the
\* adapter of that source is not called again, in any later batch.
C22_RejectedNeverCalledAgain ==
    \A n \in Range(ConfigNames) : [](CredentialRejected(n) => []~Calling(n))

----------------------------------------------------------------------------
(* Attribution and order of aggregation *)

\* the outcome of the call made to source n in the batch under way
OutcomeOf(n) == outcomes[CHOOSE i \in 1..Len(enabled_models) : enabled_models[i] = n]

\* the sources of the batch with a valid outcome, in the order of the registry
Contributors ==
    SelectSeq(models, LAMBDA n : n \in Range(enabled_models) /\ IsValid(OutcomeOf(n)))

InSourceOrder == [i \in 1..Len(Contributors) |-> <<Contributors[i], OutcomeOf(Contributors[i]).d>>]

----------------------------------------------------------------------------
(* Partial success *)

\* C24: a batch in which at least one source gave a valid opinion returns a
\* consensus, not an error, built from exactly the valid opinions, and the
\* result records the sources that contributed.
C24_ConsensusRecordsContributors ==
    (pc = "returned" /\ valid_results # <<>>) =>
        /\ "error" \notin DOMAIN result
        /\ \E it \in Iterations(task, valid_results) :
              \A f \in DOMAIN BuildConsensus(config, models, task, valid_results, it) :
                  f \in DOMAIN result
        /\ "models_used" \in DOMAIN result
        /\ result.models_used = ModelsUsed(valid_results)

----------------------------------------------------------------------------
(* Statelessness of the consensus functions *)

\* the step in which gather returns and the consensus is built
BuildStep == pc = "gather" /\ pc' = "returned"

----------------------------------------------------------------------------
(* Extraction of the JSON object from a response text *)

\* the position at which the brace opened at or before i is closed, 0 if never
RECURSIVE BalancedEnd(_, _, _)
BalancedEnd(text, i, depth) ==
    IF i > Len(text) THEN 0
    ELSE LET d == depth + (CASE text[i] = "{" -> 1 [] text[i] = "}" -> -1 [] OTHER -> 0)
         IN IF d = 0 THEN i ELSE BalancedEnd(text, i + 1, d)

\* the first balanced {...} of a text, <<>> if it has none
FirstBalanced(text) ==
    LET start == Find(text, "{") + 1
        end   == IF start = 0 THEN 0 ELSE BalancedEnd(text, start, 0)
    IN IF end = 0 THEN <<>> ELSE SubSeq(text, start, end)

\* the call got a 2xx response in the provider's shape, without an error key,
\* whose text holds a well-formed object first
FirstObjectWellFormed ==
    /\ acall.stage = "resolved"
    /\ acall.response.j = "object"
    /\ ~acall.response.has_error
    /\ acall.response.path = ResponsePath(acall.provider)
    /\ acall.response.content # None
    /\ JsonLoadsOk(FirstBalanced(acall.response.content.text))

\* C26: an adapter returns the payload of the first balanced {...} object of
\* the response text, also when further text, braces or a second object
\* follow it.
C26_FirstBalancedObjectExtracted ==
    FirstObjectWellFormed =>
        acall.ret = [k |-> "dict",
                     d |-> ("model" :> S(ModelLabel(acall.provider)))
                           @@ acall.response.content.data]

----------------------------------------------------------------------------
(* Classification of the outcomes of a batch *)

\* the outcome is a raised exception or a mapping with the key "error"
RaisedOrErrorMapping(r) ==
    \/ r.k = "raise"
    \/ r.k = "dict" /\ "error" \in DOMAIN r.d

UsedNames == {valid_results[i][1] : i \in 1..Len(valid_results)}

----------------------------------------------------------------------------
(* Order of the operations on one contact *)

PipelineOrder == <<"contact_research", "company_analysis", "email_verification">>

\* the operations called for the contact so far, the one under way included
Started ==
    pipeline.ran \o
    (IF pc # "idle" /\ pipeline.step # StepAfter(task) THEN <<task>> ELSE <<>>)

\* C28: on one contact the operations are called in the order contact
\* research, company analysis, email verification; the company analysis is
\* called whatever the contact research returned; the email verification is
\* called exactly when the contact result has a truthy email, so never after
\* a contact research that returned an error.
C28_PipelineOrder ==
    pipeline.step # "none" =>
        /\ \E k \in 0..Len(PipelineOrder) : Started = SubSeq(PipelineOrder, 1, k)
        /\ pipeline.step \in {"company", "email", "done"} =>
              "company_analysis" \in Range(Started)
        /\ pipeline.step = "done" =>
              ("email_verification" \in Range(Started)
                  <=> Truthy(Get(pipeline.contact_result, "email", None)))
        /\ "email_verification" \in Range(Started) =>
              /\ "error" \notin DOMAIN pipeline.contact_result
              /\ Truthy(Get(pipeline.contact_result, "email", None))

\* a contact whose research returned an error is done: the company analysis
\* was called and the email verification was not
C28_Witness ==
    /\ pipeline.step = "done"
    /\ "error" \in DOMAIN pipeline.contact_result
    /\ pipeline.ran = <<"contact_research", "company_analysis">>

----------------------------------------------------------------------------
(* consensus_confidence of an email verification *)

----------------------------------------------------------------------------
(* At most one processing of a path in a session *)

\* C30: in a watch_directory session a path is passed to process_document at
\* most once, whether its processing succeeded or failed; a path whose
\* processing failed is not archived, and a path is archived only after its
\* processing succeeded.
C30_ProcessedAtMostOnce ==
    watcher.at # "none" =>
        \A f \in Paths :
            /\ watcher.calls[f] <= 1
            /\ f \in watcher.archived => watcher.status[f] = "success"
            /\ watcher.status[f] = "error" =>
                  /\ f \notin watcher.archived
                  /\ f \in watcher.processed_files

\* the scan goes on over a directory that still holds a file whose processing
\* failed, after another file was processed and archived
C30_Witness ==
    /\ watcher.at = "scan"
    /\ \E f, g \in Paths :
          /\ watcher.status[f] = "error"
          /\ f \in watcher.dir
          /\ watcher.calls[f] = 1
          /\ g \in watcher.archived
          /\ g \in watcher.dir

====
